---- MODULE Spec2Model ----
(***************************************************************************)
(* A model of scripts/whatsapp-watchdog.sh: the cron-driven WhatsApp       *)
(* watchdog.  Every invocation is a fresh process that reads the state     *)
(* file and the clock, probes the gateway with a test message, restarts    *)
(* the gateway and probes again when the first probe fails, and calls      *)
(* send_alert when the second probe fails too.                             *)
(*                                                                         *)
(* The other cron scripts each have their own variables and their own      *)
(* specification: the probe functions (SpecProbe), whatsapp-healthcheck.sh *)
(* and health-check.sh (SpecHealth), run-scheduled.sh (SpecSched),         *)
(* load-env.sh (SpecLoadEnv), and the meeting joiner: its main function    *)
(* (SpecJoiner), its monitoring loop (SpecMonitor, SpecMonitorLive) and    *)
(* processGeminiNotes (SpecNotes).                                         *)
(***************************************************************************)
EXTENDS Integers, Sequences, FiniteSets, TLC

\* ------------------------------------------------------------------ bounds
\* The epoch second at which the model starts (date +%s is far past 1970).
StartEpoch == 1700000000
\* How many seconds of wall-clock time the model lets pass.
MaxElapsed == 7400
\* How many probe commands the model of the probe functions runs.
MaxProbeLog == 2
\* The steps by which the wall clock advances between two script steps.
TimeSteps == {1800, 3700}
\* The exit codes the probe command (openclaw message send) may return.
ProbeExitCodes == {0, 1, 127}
\* The watchdog processes cron may have started.
Procs == {1, 2}
\* The watchdog processes of a schedule in which every invocation has ended
\* before cron starts the next one.
SeqProcs == {1}

\* ------------------------------------------------------- program constants
\* const MAX_DURATION_MS = 3 * 60 * 60 * 1000
MAX_DURATION_MS == 10800000
\* const CHECK_INTERVAL_MS = 30 * 1000
CHECK_INTERVAL_MS == 30000
\* cooldown=3600
cooldown == 3600
\* The four optional voice-alert credentials tested by send_alert.
TwilioVars == {"TWILIO_ACCOUNT_SID", "TWILIO_API_KEY_SID",
               "TWILIO_API_KEY_SECRET", "TWILIO_FROM_NUMBER"}

\* ------------------------------------------------------------------- state
VARIABLES
    clock,        \* what date +%s returns now
    stateFile,    \* /tmp/whatsapp-watchdog-state: [kind, val]
    env,          \* TwilioVars -> BOOLEAN: TRUE when the variable is non-empty
    pc,           \* each process's position in the script
    now,          \* each process's $now
    last_alert,   \* each process's $last_alert
    run,          \* what each invocation has done so far
    hist,         \* summaries of the last two finished invocations
    lastDispatch, \* $now of the latest invocation that dispatched an alert, 0 if none
    outageDispatch, \* the same, forgotten when an invocation ends healthy
    probeLog,     \* the probe commands run so far and what the probe returned
    hc,           \* the run of whatsapp-healthcheck.sh
    tk,           \* the run of health-check.sh
    sched,        \* the run of run-scheduled.sh
    le,           \* load-env.sh run on two .env files for the same job
    mj,           \* the meeting joiner process, from its start to its exit
    mon,          \* the meeting joiner's monitoring loop
    gn            \* the meeting joiner's processGeminiNotes

\* The variables of whatsapp-watchdog.sh.
wdVars == <<clock, stateFile, env, pc, now, last_alert, run, hist,
            lastDispatch, outageDispatch>>

\* The variables of the other scripts.
otherVars == <<probeLog, hc, tk, sched, le, mj, mon, gn>>

vars == <<clock, stateFile, env, pc, now, last_alert, run, hist,
          lastDispatch, outageDispatch, probeLog, hc, tk, sched, le,
          mj, mon, gn>>

Absent == [kind |-> "absent", val |-> 0]
\* The file just opened by a redirection (> truncates it), nothing written yet.
Empty == [kind |-> "empty", val |-> 0]
Num(n) == [kind |-> "num", val |-> n]
\* The file holding a bare word such as abc: $(( now - abc )) reads abc as
\* the name of an unset variable, which is 0.
Word == [kind |-> "word", val |-> 0]
\* The file holding text that is no arithmetic operand, such as "12 34" or
\* "1.5": $(( now - 12 34 )) is a syntax error.
Garbage == [kind |-> "garbage", val |-> 0]

\* The record of a fresh invocation: nothing done yet.
FreshRun ==
    [probes |-> 0, restarts |-> 0, alerts |-> 0, calls |-> 0, emails |-> 0,
     skipLogged |-> FALSE, cooldownLogged |-> FALSE, writes |-> 0,
     callRc |-> "none", emailRc |-> "none",
     p1 |-> "none", p2 |-> "none", exit |-> 0, fileAtStart |-> Absent,
     early |-> FALSE, overlap |-> FALSE, aborted |-> FALSE]

\* whatsapp-healthcheck.sh before cron starts it.
HcIdle == [pc |-> "idle", checks |-> 0, restarts |-> 0, alerts |-> 0,
           last |-> "none", exit |-> 0]

\* health-check.sh before cron starts it: FAILURES=0, WARNINGS=0.
TkIdle == [pc |-> "idle", FAILURES |-> 0, WARNINGS |-> 0,
           failEvents |-> 0, warnEvents |-> 0, checks |-> 0,
           alerts |-> [gateway |-> 0, whatsapp |-> 0, disk |-> 0],
           waProbes |-> 0, waRestarts |-> 0, wa1 |-> "none", wa2 |-> "none",
           WA_OUTPUT |-> << >>, WA_OUTPUT2 |-> << >>,
           summary |-> "none", exit |-> 0]

\* run-scheduled.sh before cron starts it.
SchedIdle == [pc |-> "idle", ISRAEL_DAY |-> 1, ISRAEL_HOUR |-> 0, NY_HOUR |-> 0,
              decision |-> "none", cdFailed |-> FALSE, started |-> FALSE,
              exit |-> 0]

\* A .env file that does not exist.
NoEnvFile == [exists |-> FALSE, lines |-> << >>, terminated |-> TRUE]

\* What load-env.sh leaves when it has not got to its exec.
NotLaunched == [launched |-> FALSE, env |-> << >>]

\* load-env.sh before it is started.
LeIdle == [pc |-> "idle", JOB |-> "meeting-bot", fileA |-> NoEnvFile,
           fileB |-> NoEnvFile, resA |-> NotLaunched, resB |-> NotLaunched]

\* The meeting joiner before it is started.
MjIdle == [pc |-> "idle", url |-> [given |-> FALSE, parses |-> FALSE, host |-> ""],
           browser |-> "none", context |-> "none", page |-> FALSE,
           navigated |-> FALSE, meetingMeta |-> FALSE, notesRun |-> FALSE,
           path |-> "none", exit |-> 0]

\* The team members of the model (config.team.members).
Members == {"alice", "bob"}

\* The monitoring loop before the meeting is joined.
MonIdle == [pc |-> "idle", expectedAttendees |-> {}, lag |-> 0, elapsed |-> 0,
            iter |-> 0, stopping |-> FALSE, sigIter |-> 0,
            whatsappSent |-> {}, escalated |-> {}, attendanceComplete |-> FALSE,
            check3Runs |-> 0, check5Runs |-> 0,
            reminders |-> [m \in Members |-> 0],
            escalations |-> [m \in Members |-> 0],
            present5 |-> {}, lateSends |-> 0, reason |-> "none"]

\* processGeminiNotes before it is called.
GnIdle == [pc |-> "idle", attempt |-> 0, searches |-> 0, waits |-> 0,
           outcomes |-> << >>, notesEmail |-> FALSE,
           memberItems |-> {}, emailsTried |-> {}, emailsSent |-> {},
           archives |-> 0, path |-> "none"]

\* ---------------------------------------------------------- pure functions
\* last_alert=$(cat "$STATE_FILE" 2>/dev/null || echo "0")
ReadLastAlert(file) == IF file.kind = "absent" THEN 0 ELSE file.val

\* try_send: 0 when the send command exits 0, 1 otherwise.
try_send(rc) == IF rc = 0 THEN 0 ELSE 1

\* (a variant: the call is skipped only when every credential is empty)
TwilioAllMissing(e) == \A v \in TwilioVars : ~e[v]

\* The test of send_alert's first line: some credential is empty.
TwilioMissing(e) == \E v \in TwilioVars : ~e[v]

\* elapsed=$(( now - last_alert )) fails with a syntax error, which makes
\* bash abandon the function that holds it.
ArithError(content) == content.kind = "garbage"

\* (a variant: -le in place of -lt)
CooldownActiveLe(n, last) == n - last <= cooldown

\* [ "$elapsed" -lt "$cooldown" ] with elapsed=$(( now - last_alert ))
CooldownActive(n, last) == n - last < cooldown

\* The last two elements of a sequence.
LastTwo(s) == IF Len(s) <= 2 THEN s ELSE SubSeq(s, Len(s) - 1, Len(s))

\* The summary of a finished invocation kept in hist.
Summary(r, n, file) ==
    [p1 |-> r.p1, p2 |-> r.p2, exit |-> r.exit, now |-> n, file |-> file,
     fileAtStart |-> r.fileAtStart,
     dispatched |-> (r.calls + r.emails > 0)]

Init ==
    /\ clock = StartEpoch
    /\ stateFile = Absent
    /\ env \in [TwilioVars -> BOOLEAN]
    /\ pc = [p \in Procs |-> "idle"]
    /\ now = [p \in Procs |-> 0]
    /\ last_alert = [p \in Procs |-> 0]
    /\ run = [p \in Procs |-> FreshRun]
    /\ hist = << >>
    /\ lastDispatch = 0
    /\ outageDispatch = 0
    /\ probeLog = << >>
    /\ hc = HcIdle
    /\ tk = TkIdle
    /\ sched = SchedIdle
    /\ le = LeIdle
    /\ mj = MjIdle
    /\ mon = MonIdle
    /\ gn = GnIdle

\* ------------------------------------------------------------- send_alert
\* (a variant: the state file is stamped before the cooldown test)
send_alertStampFirst(r, e, n, last, file, callOk, emailOk) ==
    LET entered == [r EXCEPT !.alerts = @ + 1, !.writes = @ + 1]
        Email(q) == [run |-> [q EXCEPT !.emails = @ + 1,
                                       !.emailRc = IF emailOk THEN "ok" ELSE "fail"],
                     file |-> Num(n)]
    IN  IF TwilioMissing(e)
        THEN Email([entered EXCEPT !.skipLogged = TRUE])
        ELSE IF CooldownActive(n, last)
             THEN [run |-> [entered EXCEPT !.cooldownLogged = TRUE], file |-> Num(n)]
             ELSE Email([entered EXCEPT !.calls = @ + 1,
                                        !.callRc = IF callOk THEN "ok" ELSE "fail"])

\* (a variant: a suppressed alert restarts the cooldown window)
send_alertSuppressedStamps(r, e, n, last, file, callOk, emailOk) ==
    LET entered == [r EXCEPT !.alerts = @ + 1]
        Email(q) == [run |-> [q EXCEPT !.emails = @ + 1,
                                       !.emailRc = IF emailOk THEN "ok" ELSE "fail",
                                       !.writes = @ + 1],
                     file |-> Num(n)]
    IN  IF TwilioMissing(e)
        THEN Email([entered EXCEPT !.skipLogged = TRUE])
        ELSE IF ArithError(r.fileAtStart)
             THEN [run |-> [entered EXCEPT !.aborted = TRUE], file |-> file]
        ELSE IF CooldownActive(n, last)
             THEN [run |-> [entered EXCEPT !.cooldownLogged = TRUE,
                                           !.writes = @ + 1],
                   file |-> Num(n)]
             ELSE Email([entered EXCEPT !.calls = @ + 1,
                                        !.callRc = IF callOk THEN "ok" ELSE "fail"])

\* (a variant: a failed call returns from send_alert, as curl ... || return)
send_alertCallFailReturns(r, e, n, last, file, callOk, emailOk) ==
    LET entered == [r EXCEPT !.alerts = @ + 1]
        Email(q) == [run |-> [q EXCEPT !.emails = @ + 1,
                                       !.emailRc = IF emailOk THEN "ok" ELSE "fail",
                                       !.writes = @ + 1],
                     file |-> Num(n)]
        called == [entered EXCEPT !.calls = @ + 1,
                                  !.callRc = IF callOk THEN "ok" ELSE "fail"]
    IN  IF TwilioMissing(e)
        THEN Email([entered EXCEPT !.skipLogged = TRUE])
        ELSE IF ArithError(r.fileAtStart)
             THEN [run |-> [entered EXCEPT !.aborted = TRUE], file |-> file]
        ELSE IF CooldownActive(n, last)
             THEN [run |-> [entered EXCEPT !.cooldownLogged = TRUE], file |-> file]
        ELSE IF callOk THEN Email(called)
             ELSE [run |-> called, file |-> file]

\* (a variant: the state file is stamped only when the email was sent, as
\* gog gmail send ... && echo "$now" > "$STATE_FILE")
send_alertStampOnSuccess(r, e, n, last, file, callOk, emailOk) ==
    LET entered == [r EXCEPT !.alerts = @ + 1]
        Email(q) == [run |-> [q EXCEPT !.emails = @ + 1,
                                       !.emailRc = IF emailOk THEN "ok" ELSE "fail",
                                       !.writes = IF emailOk THEN @ + 1 ELSE @],
                     file |-> IF emailOk THEN Num(n) ELSE file]
    IN  IF TwilioMissing(e)
        THEN Email([entered EXCEPT !.skipLogged = TRUE])
        ELSE IF ArithError(r.fileAtStart)
             THEN [run |-> [entered EXCEPT !.aborted = TRUE], file |-> file]
        ELSE IF CooldownActive(n, last)
             THEN [run |-> [entered EXCEPT !.cooldownLogged = TRUE], file |-> file]
             ELSE Email([entered EXCEPT !.calls = @ + 1,
                                        !.callRc = IF callOk THEN "ok" ELSE "fail"])

\* send_alert, as a function of the invocation's record r, the environment e,
\* $now, $last_alert, the state file and the outcomes of the two senders:
\* the record and the state file it leaves.
send_alert(r, e, n, last, file, callOk, emailOk) ==
    LET entered == [r EXCEPT !.alerts = @ + 1]
        \* gog gmail send ... || true ; echo "$now" > "$STATE_FILE"
        Email(q) == [run |-> [q EXCEPT !.emails = @ + 1,
                                       !.emailRc = IF emailOk THEN "ok" ELSE "fail",
                                       !.writes = @ + 1],
                     file |-> Num(n)]
    IN  IF TwilioMissing(e)
        THEN Email([entered EXCEPT !.skipLogged = TRUE])
        ELSE IF ArithError(r.fileAtStart)
             THEN [run |-> [entered EXCEPT !.aborted = TRUE], file |-> file]
        ELSE IF CooldownActive(n, last)
             THEN [run |-> [entered EXCEPT !.cooldownLogged = TRUE], file |-> file]
             ELSE Email([entered EXCEPT !.calls = @ + 1,
                                        !.callRc = IF callOk THEN "ok" ELSE "fail"])

\* ------------------------------------------------------------------ actions
\* No watchdog process is between its start and its exit.
NoneRunning == \A q \in Procs : pc[q] \in {"idle", "done"}

\* The end of an invocation: exit with status code, leaving record r and the
\* state file as file.
Exit(p, r, code, file) ==
    LET done == [r EXCEPT !.exit = code]
    IN  /\ pc' = [pc EXCEPT ![p] = "done"]
        /\ run' = [run EXCEPT ![p] = done]
        /\ stateFile' = file
        /\ hist' = LastTwo(Append(hist, Summary(done, now[p], file)))

\* The wall clock advances.
Tick ==
    /\ \E d \in TimeSteps :
          /\ clock + d <= StartEpoch + MaxElapsed
          /\ clock' = clock + d
    /\ UNCHANGED <<stateFile, env, pc, now, last_alert, run, hist,
                   lastDispatch, outageDispatch>>

\* (a variant: a missing state file is read as "alerted just now")
StartupMissingAsNow(p) ==
    /\ pc[p] \in {"idle", "done"}
    /\ NoneRunning
    /\ last_alert' = [last_alert EXCEPT ![p] =
                         IF stateFile.kind = "absent" THEN clock
                         ELSE ReadLastAlert(stateFile)]
    /\ now' = [now EXCEPT ![p] = clock]
    /\ run' = [run EXCEPT ![p] = [FreshRun EXCEPT !.fileAtStart = stateFile]]
    /\ pc' = [pc EXCEPT ![p] = "probe1"]
    /\ UNCHANGED <<clock, stateFile, env, hist, lastDispatch, outageDispatch>>

\* cron starts the script: it reads the state file and the clock.
Startup(p) ==
    /\ pc[p] \in {"idle", "done"}
    /\ NoneRunning
    /\ last_alert' = [last_alert EXCEPT ![p] = ReadLastAlert(stateFile)]
    /\ now' = [now EXCEPT ![p] = clock]
    /\ run' = [run EXCEPT ![p] = [FreshRun EXCEPT !.fileAtStart = stateFile]]
    /\ pc' = [pc EXCEPT ![p] = "probe1"]
    /\ UNCHANGED <<clock, stateFile, env, hist, lastDispatch, outageDispatch>>

\* (a variant: the healthy branch leaves the state file alone)
ExitHealthyKeep(p, r) ==
    /\ Exit(p, r, 0, stateFile)
    /\ outageDispatch' = 0
    /\ UNCHANGED <<clock, env, now, last_alert, lastDispatch>>

\* (a variant: the healthy branch writes $now in place of 0)
ExitHealthyStamp(p, r) ==
    /\ Exit(p, [r EXCEPT !.writes = @ + 1], 0, Num(now[p]))
    /\ outageDispatch' = 0
    /\ UNCHANGED <<clock, env, now, last_alert, lastDispatch>>

\* The healthy branch of Main: echo "0" > "$STATE_FILE"; exit 0
ExitHealthy(p, r) ==
    /\ Exit(p, [r EXCEPT !.writes = @ + 1], 0, Num(0))
    /\ outageDispatch' = 0
    /\ UNCHANGED <<clock, env, now, last_alert, lastDispatch>>

\* (a variant: step 1 without its exit 0, so a healthy run falls through)
Probe1FallThrough(p) ==
    /\ pc[p] = "probe1"
    /\ \E rc \in ProbeExitCodes :
          LET ok == try_send(rc) = 0
              r == [run[p] EXCEPT !.probes = @ + 1,
                                  !.p1 = IF ok THEN "ok" ELSE "fail"]
          IN  /\ pc' = [pc EXCEPT ![p] = "recover"]
              /\ run' = [run EXCEPT ![p] = r]
              /\ stateFile' = IF ok THEN Num(0) ELSE stateFile
              /\ UNCHANGED <<clock, env, now, last_alert, hist,
                             lastDispatch, outageDispatch>>

\* (a variant: step 1 goes straight to the alert, without the restart and the
\* re-probe)
Probe1SkipRecovery(p) ==
    /\ pc[p] = "probe1"
    /\ \E rc \in ProbeExitCodes :
          LET ok == try_send(rc) = 0
              r == [run[p] EXCEPT !.probes = @ + 1,
                                  !.p1 = IF ok THEN "ok" ELSE "fail"]
          IN  IF ok
              THEN ExitHealthy(p, r)
              ELSE /\ pc' = [pc EXCEPT ![p] = "escalate"]
                   /\ run' = [run EXCEPT ![p] = r]
                   /\ UNCHANGED <<clock, stateFile, env, now, last_alert, hist,
                                  lastDispatch, outageDispatch>>

\* Step 1: if try_send; then ... exit 0; fi
Probe1(p) ==
    /\ pc[p] = "probe1"
    /\ \E rc \in ProbeExitCodes :
          LET ok == try_send(rc) = 0
              r == [run[p] EXCEPT !.probes = @ + 1,
                                  !.p1 = IF ok THEN "ok" ELSE "fail"]
          IN  IF ok
              THEN ExitHealthy(p, r)
              ELSE /\ pc' = [pc EXCEPT ![p] = "recover"]
                   /\ run' = [run EXCEPT ![p] = r]
                   /\ UNCHANGED <<clock, stateFile, env, now, last_alert, hist,
                                  lastDispatch, outageDispatch>>

\* Step 2, first half: restart_gateway
RestartGateway(p) ==
    /\ pc[p] = "recover"
    /\ run' = [run EXCEPT ![p].restarts = @ + 1]
    /\ pc' = [pc EXCEPT ![p] = "probe2"]
    /\ UNCHANGED <<clock, stateFile, env, now, last_alert, hist,
                   lastDispatch, outageDispatch>>

\* (a variant: a failed re-probe goes back to the restart)
Probe2Retry(p) ==
    /\ pc[p] = "probe2"
    /\ \E rc \in ProbeExitCodes :
          LET ok == try_send(rc) = 0
              r == [run[p] EXCEPT !.probes = @ + 1,
                                  !.p2 = IF ok THEN "ok" ELSE "fail"]
          IN  IF ok
              THEN ExitHealthy(p, r)
              ELSE /\ pc' = [pc EXCEPT ![p] = "recover"]
                   /\ run' = [run EXCEPT ![p] = r]
                   /\ UNCHANGED <<clock, stateFile, env, now, last_alert, hist,
                                  lastDispatch, outageDispatch>>

\* Step 2, second half: if try_send; then ... exit 0; fi
Probe2(p) ==
    /\ pc[p] = "probe2"
    /\ \E rc \in ProbeExitCodes :
          LET ok == try_send(rc) = 0
              r == [run[p] EXCEPT !.probes = @ + 1,
                                  !.p2 = IF ok THEN "ok" ELSE "fail"]
          IN  IF ok
              THEN ExitHealthy(p, r)
              ELSE /\ pc' = [pc EXCEPT ![p] = "escalate"]
                   /\ run' = [run EXCEPT ![p] = r]
                   /\ UNCHANGED <<clock, stateFile, env, now, last_alert, hist,
                                  lastDispatch, outageDispatch>>

\* Whether a dispatch at time n comes less than cooldown seconds after the
\* previous dispatch of the same outage.
Early(sent, n) == sent /\ outageDispatch # 0 /\ n - outageDispatch < cooldown

\* (a variant: step 3 without its exit 1, so the script ends with the status
\* of send_alert, which is 0)
EscalateNoExit(p) ==
    /\ pc[p] = "escalate"
    /\ \E callOk \in BOOLEAN, emailOk \in BOOLEAN :
          LET a == send_alert(run[p], env, now[p], last_alert[p], stateFile,
                              callOk, emailOk)
              sent == a.run.calls + a.run.emails > 0
          IN  /\ Exit(p, [a.run EXCEPT !.early = Early(sent, now[p])], 0, a.file)
              /\ lastDispatch' = IF sent THEN now[p] ELSE lastDispatch
              /\ outageDispatch' = IF sent THEN now[p] ELSE outageDispatch
    /\ UNCHANGED <<clock, env, now, last_alert>>

\* Step 3: send_alert; exit 1
Escalate(p) ==
    /\ pc[p] = "escalate"
    /\ \E callOk \in BOOLEAN, emailOk \in BOOLEAN :
          LET a == send_alert(run[p], env, now[p], last_alert[p], stateFile,
                              callOk, emailOk)
              sent == a.run.calls + a.run.emails > 0
          IN  /\ Exit(p, [a.run EXCEPT !.early = Early(sent, now[p])], 1, a.file)
              /\ lastDispatch' = IF sent THEN now[p] ELSE lastDispatch
              /\ outageDispatch' = IF sent THEN now[p] ELSE outageDispatch
    /\ UNCHANGED <<clock, env, now, last_alert>>

Next ==
    \/ Tick /\ UNCHANGED otherVars
    \/ \E p \in SeqProcs :
          \/ Startup(p) /\ UNCHANGED otherVars
          \/ Probe1(p) /\ UNCHANGED otherVars
          \/ RestartGateway(p) /\ UNCHANGED otherVars
          \/ Probe2(p) /\ UNCHANGED otherVars
          \/ Escalate(p) /\ UNCHANGED otherVars

Spec == Init /\ [][Next]_vars

\* ------------------------------------------- overlapping invocations
\* cron starts the script whether or not an earlier invocation is still
\* running: the script takes no lock.  Each process is one invocation.
StartupOverlap(p) ==
    /\ pc[p] = "idle"
    /\ last_alert' = [last_alert EXCEPT ![p] = ReadLastAlert(stateFile)]
    /\ now' = [now EXCEPT ![p] = clock]
    /\ run' = [run EXCEPT ![p] = [FreshRun EXCEPT !.fileAtStart = stateFile,
                                                  !.overlap = ~NoneRunning]]
    /\ pc' = [pc EXCEPT ![p] = "probe1"]
    /\ UNCHANGED <<clock, stateFile, env, hist, lastDispatch, outageDispatch>>

\* The healthy branch up to the redirection of echo "0" > "$STATE_FILE": the
\* shell has opened the file, truncating it, and echo has not written yet.
TruncHealthy(p) ==
    /\ pc[p] \in {"probe1", "probe2"}
    /\ \E rc \in ProbeExitCodes :
          /\ try_send(rc) = 0
          /\ run' = [run EXCEPT ![p] =
                        IF pc[p] = "probe1"
                        THEN [@ EXCEPT !.probes = @ + 1, !.p1 = "ok"]
                        ELSE [@ EXCEPT !.probes = @ + 1, !.p2 = "ok"]]
    /\ stateFile' = Empty
    /\ pc' = [pc EXCEPT ![p] = "write0"]
    /\ UNCHANGED <<clock, env, now, last_alert, hist, lastDispatch, outageDispatch>>

\* echo writes "0" into the opened file; exit 0
WriteHealthy(p) ==
    /\ pc[p] = "write0"
    /\ ExitHealthy(p, run[p])

\* send_alert up to the redirection of echo "$now" > "$STATE_FILE"
TruncAlert(p) ==
    /\ pc[p] = "escalate"
    /\ \E callOk \in BOOLEAN, emailOk \in BOOLEAN :
          LET a == send_alert(run[p], env, now[p], last_alert[p], stateFile,
                              callOk, emailOk)
          IN  /\ a.run.writes > run[p].writes
              /\ run' = [run EXCEPT ![p] = [a.run EXCEPT !.writes = @ - 1]]
    /\ stateFile' = Empty
    /\ pc' = [pc EXCEPT ![p] = "writeNow"]
    /\ UNCHANGED <<clock, env, now, last_alert, hist, lastDispatch, outageDispatch>>

\* echo writes $now into the opened file; send_alert returns; exit 1
WriteAlert(p) ==
    /\ pc[p] = "writeNow"
    /\ Exit(p, [run[p] EXCEPT !.writes = @ + 1, !.early = Early(TRUE, now[p])],
            1, Num(now[p]))
    /\ lastDispatch' = now[p]
    /\ outageDispatch' = now[p]
    /\ UNCHANGED <<clock, env, now, last_alert>>

\* A termination signal ends the script where it stands (it sets no trap);
\* the shell reports 128 + 15.
Terminate(p) ==
    /\ pc[p] \notin {"idle", "done"}
    /\ Exit(p, run[p], 143, stateFile)
    /\ UNCHANGED <<clock, env, now, last_alert, lastDispatch, outageDispatch>>

NextOverlap ==
    \E p \in Procs :
        \/ StartupOverlap(p) /\ UNCHANGED otherVars
        \/ Probe1(p) /\ UNCHANGED otherVars
        \/ RestartGateway(p) /\ UNCHANGED otherVars
        \/ Probe2(p) /\ UNCHANGED otherVars
        \/ Escalate(p) /\ UNCHANGED otherVars
        \/ TruncHealthy(p) /\ UNCHANGED otherVars
        \/ WriteHealthy(p) /\ UNCHANGED otherVars
        \/ TruncAlert(p) /\ UNCHANGED otherVars
        \/ WriteAlert(p) /\ UNCHANGED otherVars
        \/ Terminate(p) /\ UNCHANGED otherVars

SpecOverlap == Init /\ [][NextOverlap]_vars

\* ------------------------------------------------- a damaged state file
\* The state file has been left empty, or holding text, by something other
\* than a completed write of the script.
InitCorrupt ==
    /\ clock = StartEpoch
    /\ stateFile \in {Empty, Word, Garbage}
    /\ env \in [TwilioVars -> BOOLEAN]
    /\ pc = [p \in Procs |-> "idle"]
    /\ now = [p \in Procs |-> 0]
    /\ last_alert = [p \in Procs |-> 0]
    /\ run = [p \in Procs |-> FreshRun]
    /\ hist = << >>
    /\ lastDispatch = 0
    /\ outageDispatch = 0
    /\ probeLog = << >>
    /\ hc = HcIdle
    /\ tk = TkIdle
    /\ sched = SchedIdle
    /\ le = LeIdle
    /\ mj = MjIdle
    /\ mon = MonIdle
    /\ gn = GnIdle

NextCorrupt ==
    \E p \in SeqProcs :
        \/ Startup(p) /\ UNCHANGED otherVars
        \/ Probe1(p) /\ UNCHANGED otherVars
        \/ RestartGateway(p) /\ UNCHANGED otherVars
        \/ Probe2(p) /\ UNCHANGED otherVars
        \/ Escalate(p) /\ UNCHANGED otherVars

SpecCorrupt == InitCorrupt /\ [][NextCorrupt]_vars

\* ------------------------------------------- commands that never return
\* try_send waits for openclaw message send, which is run without a timeout:
\* when the command never returns, the script stays in the command
\* substitution.
ProbeHangs(p) ==
    /\ pc[p] \in {"probe1", "probe2"}
    /\ pc' = [pc EXCEPT ![p] = "blocked"]
    /\ UNCHANGED <<clock, stateFile, env, now, last_alert, run, hist,
                   lastDispatch, outageDispatch>>

\* send_alert waits for curl (no --max-time) and for gog gmail send, both run
\* without a timeout.
SenderHangs(p) ==
    /\ pc[p] = "escalate"
    /\ ~(~TwilioMissing(env) /\ CooldownActive(now[p], last_alert[p]))
    /\ pc' = [pc EXCEPT ![p] = "blocked"]
    /\ run' = [run EXCEPT ![p].alerts = @ + 1]
    /\ UNCHANGED <<clock, stateFile, env, now, last_alert, hist,
                   lastDispatch, outageDispatch>>

\* The steps the script itself can take from where it stands.
ScriptStep(p) ==
    \/ Probe1(p)
    \/ RestartGateway(p)
    \/ Probe2(p)
    \/ Escalate(p)

NextHang ==
    \E p \in SeqProcs :
        \/ Startup(p) /\ UNCHANGED otherVars
        \/ ScriptStep(p) /\ UNCHANGED otherVars
        \/ ProbeHangs(p) /\ UNCHANGED otherVars
        \/ SenderHangs(p) /\ UNCHANGED otherVars

SpecHang == Init /\ [][NextHang]_vars

\* ------------------------------------------------------ probe functions
\* What a probe command may print, as the set of the words it holds.
ProbeOutputs == SUBSET {"connected", "disconnected", "timeout"}

\* Whether the text pat occurs in the word w: "connected" occurs in
\* "disconnected".
Contains(w, pat) ==
    \/ w = pat
    \/ (w = "disconnected" /\ pat = "connected")
    \/ (w = "unlinked" /\ pat = "linked")

\* echo "$out" | grep -q pat
Grep(out, pat) == \E w \in out : Contains(w, pat)

\* (a variant: check_whatsapp without its test for "disconnected")
check_whatsappNoDisconnected(out) == IF Grep(out, "connected") THEN 0 ELSE 1

\* check_whatsapp of whatsapp-healthcheck.sh, given what openclaw channels
\* status printed: its return status.
check_whatsapp(out) ==
    IF Grep(out, "connected")
    THEN IF Grep(out, "disconnected") THEN 1 ELSE 0
    ELSE 1

\* try_send of whatsapp-watchdog.sh runs its command, which exits rc having
\* printed out.
ApplyTrySend ==
    /\ Len(probeLog) < MaxProbeLog
    /\ \E rc \in ProbeExitCodes, out \in ProbeOutputs :
          probeLog' = Append(probeLog, [fn |-> "try_send", rc |-> rc,
                                        out |-> out, ret |-> try_send(rc)])
    /\ UNCHANGED <<wdVars, hc, tk, sched, le, mj, mon, gn>>

\* check_whatsapp of whatsapp-healthcheck.sh runs its command, which exits
\* rc having printed out.
ApplyCheckWhatsapp ==
    /\ Len(probeLog) < MaxProbeLog
    /\ \E rc \in ProbeExitCodes, out \in ProbeOutputs :
          probeLog' = Append(probeLog, [fn |-> "check_whatsapp", rc |-> rc,
                                        out |-> out, ret |-> check_whatsapp(out)])
    /\ UNCHANGED <<wdVars, hc, tk, sched, le, mj, mon, gn>>

NextProbe == ApplyTrySend \/ ApplyCheckWhatsapp

\* The other scripts do not read the TWILIO_* variables: their
\* specifications start with all four set.
InitOther == Init /\ env = [v \in TwilioVars |-> TRUE]

SpecProbe == InitOther /\ [][NextProbe]_vars

\* ------------------------------------------------ whatsapp-healthcheck.sh
\* (a variant: the script gives up after the first restart)
HcMainOneRestart(pos, ret) ==
    IF ret = 0 THEN [pc |-> "done", exit |-> 0]
    ELSE IF pos = "check1" THEN [pc |-> "restart1", exit |-> 0]
    ELSE [pc |-> "done", exit |-> 1]

\* (a variant: giving up ends with exit 0)
HcMainGiveUpZero(pos, ret) ==
    IF ret = 0 THEN [pc |-> "done", exit |-> 0]
    ELSE IF pos = "check1" THEN [pc |-> "restart1", exit |-> 0]
    ELSE IF pos = "check2" THEN [pc |-> "restart2", exit |-> 0]
    ELSE [pc |-> "done", exit |-> 0]

\* Main of whatsapp-healthcheck.sh after the check at position pos returned
\* ret: where the script goes, and its exit status when it ends there.
HcMain(pos, ret) ==
    IF ret = 0 THEN [pc |-> "done", exit |-> 0]
    ELSE IF pos = "check1" THEN [pc |-> "restart1", exit |-> 0]
    ELSE IF pos = "check2" THEN [pc |-> "restart2", exit |-> 0]
    ELSE [pc |-> "done", exit |-> 1]

\* cron starts whatsapp-healthcheck.sh.
HcStart ==
    /\ hc.pc \in {"idle", "done"}
    /\ hc' = [HcIdle EXCEPT !.pc = "check1"]
    /\ UNCHANGED <<wdVars, probeLog, tk, sched, le, mj, mon, gn>>

\* if check_whatsapp; then ... exit 0; fi, at each of its three places; the
\* third is followed by exit 1.
HcCheck ==
    /\ hc.pc \in {"check1", "check2", "check3"}
    /\ \E out \in ProbeOutputs :
          LET ret == check_whatsapp(out)
              to == HcMain(hc.pc, ret)
          IN  hc' = [hc EXCEPT !.checks = @ + 1,
                               !.last = IF ret = 0 THEN "ok" ELSE "fail",
                               !.pc = to.pc, !.exit = to.exit]
    /\ UNCHANGED <<wdVars, probeLog, tk, sched, le, mj, mon, gn>>

\* restart_gateway of whatsapp-healthcheck.sh, at each of its two places.
HcRestart ==
    /\ hc.pc \in {"restart1", "restart2"}
    /\ hc' = [hc EXCEPT !.restarts = @ + 1,
                         !.pc = IF hc.pc = "restart1" THEN "check2" ELSE "check3"]
    /\ UNCHANGED <<wdVars, probeLog, tk, sched, le, mj, mon, gn>>

\* ------------------------------------------------------- health-check.sh
\* How many of the log files of check 6 may be 500 MB or more.
MaxBigLogs == 1

\* What openclaw channels status --probe may print, as the words of its line.
WaOutputs == { <<"linked", "running", "connected">>,
               <<"linked", "running", "disconnected">>,
               <<"linked", "stopped", "disconnected">>,
               <<"unlinked">>,
               <<"timeout">> }

\* echo "$out" | grep -qi "linked.*running.*connected"
GrepLinkedRunningConnected(out) ==
    \E i, j, k \in 1..Len(out) :
        /\ i < j /\ j < k
        /\ Contains(out[i], "linked")
        /\ Contains(out[j], "running")
        /\ Contains(out[k], "connected")

\* echo "$out" | grep -qi "linked"
GrepLinked(out) == \E i \in 1..Len(out) : Contains(out[i], "linked")

\* warn: the line echoed, and the counter.
TkWarn(t) == [t EXCEPT !.warnEvents = @ + 1, !.WARNINGS = @ + 1]

\* (a variant: fail run in a subshell, whose counter is lost)
TkFailInSubshell(t) == [t EXCEPT !.failEvents = @ + 1]

\* fail: the line echoed, and the counter.
TkFail(t) == [t EXCEPT !.failEvents = @ + 1, !.FAILURES = @ + 1]

\* One of the numbered checks has run to its end.
TkChecked(t, next) == [t EXCEPT !.checks = @ + 1, !.pc = next]

\* send_alert of health-check.sh, with the kind of its subject.
TkSendAlert(t, kind) == [t EXCEPT !.alerts[kind] = @ + 1]

\* (a variant: check 3 whose "not linked" branch does not alert)
TkWhatsappCheckQuiet(t, out1, out2) ==
    LET first == [t EXCEPT !.waProbes = @ + 1, !.WA_OUTPUT = out1,
                           !.wa1 = IF GrepLinkedRunningConnected(out1)
                                   THEN "ok" ELSE "bad"]
        again(q) == [q EXCEPT !.waRestarts = @ + 1, !.waProbes = @ + 1,
                              !.WA_OUTPUT2 = out2,
                              !.wa2 = IF GrepLinkedRunningConnected(out2)
                                      THEN "ok" ELSE "bad"]
    IN  IF GrepLinkedRunningConnected(out1) THEN first
        ELSE IF GrepLinked(out1)
        THEN IF GrepLinkedRunningConnected(out2)
             THEN again(TkWarn(first))
             ELSE TkSendAlert(TkFail(again(TkWarn(first))), "whatsapp")
        ELSE IF GrepLinkedRunningConnected(out2)
             THEN again(TkFail(first))
             ELSE TkFail(again(TkFail(first)))

\* 3. WhatsApp connection check, given what the first probe printed and what
\* a re-probe prints.
TkWhatsappCheck(t, out1, out2) ==
    LET first == [t EXCEPT !.waProbes = @ + 1, !.WA_OUTPUT = out1,
                           !.wa1 = IF GrepLinkedRunningConnected(out1)
                                   THEN "ok" ELSE "bad"]
        \* openclaw gateway restart; sleep 15; WA_OUTPUT2=$(...)
        again(q) == [q EXCEPT !.waRestarts = @ + 1, !.waProbes = @ + 1,
                              !.WA_OUTPUT2 = out2,
                              !.wa2 = IF GrepLinkedRunningConnected(out2)
                                      THEN "ok" ELSE "bad"]
    IN  IF GrepLinkedRunningConnected(out1) THEN first
        ELSE IF GrepLinked(out1)
        THEN IF GrepLinkedRunningConnected(out2)
             THEN again(TkWarn(first))
             ELSE TkSendAlert(TkFail(again(TkWarn(first))), "whatsapp")
        ELSE IF GrepLinkedRunningConnected(out2)
             THEN again(TkFail(first))
             ELSE TkSendAlert(TkFail(again(TkFail(first))), "whatsapp")

\* cron starts health-check.sh.
TkStart ==
    /\ tk.pc \in {"idle", "done"}
    /\ tk' = [TkIdle EXCEPT !.pc = "gateway"]
    /\ UNCHANGED <<wdVars, probeLog, hc, sched, le, mj, mon, gn>>

\* 1. Gateway process check
TkGateway ==
    /\ tk.pc = "gateway"
    /\ \E active \in BOOLEAN, active2 \in BOOLEAN :
          tk' = TkChecked(IF active THEN tk
                          ELSE IF active2 THEN TkFail(tk)
                          ELSE TkSendAlert(TkFail(TkFail(tk)), "gateway"),
                          "rpc")
    /\ UNCHANGED <<wdVars, probeLog, hc, sched, le, mj, mon, gn>>

\* 2. Gateway RPC probe
TkRpc ==
    /\ tk.pc = "rpc"
    /\ \E linked \in BOOLEAN :
          tk' = TkChecked(IF linked THEN tk ELSE TkFail(tk), "whatsapp")
    /\ UNCHANGED <<wdVars, probeLog, hc, sched, le, mj, mon, gn>>

\* 3. WhatsApp connection check
TkWhatsapp ==
    /\ tk.pc = "whatsapp"
    /\ \E out1 \in WaOutputs, out2 \in WaOutputs :
          tk' = TkChecked(TkWhatsappCheck(tk, out1, out2), "heartbeat")
    /\ UNCHANGED <<wdVars, probeLog, hc, sched, le, mj, mon, gn>>

\* 4. Agent heartbeat check
TkHeartbeat ==
    /\ tk.pc = "heartbeat"
    /\ \E disabled \in BOOLEAN :
          tk' = TkChecked(IF disabled THEN TkWarn(tk) ELSE tk, "disk")
    /\ UNCHANGED <<wdVars, probeLog, hc, sched, le, mj, mon, gn>>

\* 5. Disk & memory check
TkDiskMemory ==
    /\ tk.pc = "disk"
    /\ \E diskPct \in {89, 90}, memPct \in {89, 90} :
          LET d == IF diskPct >= 90 THEN TkSendAlert(TkWarn(tk), "disk") ELSE tk
              m == IF memPct >= 90 THEN TkWarn(d) ELSE d
          IN  tk' = TkChecked(m, "camofox")
    /\ UNCHANGED <<wdVars, probeLog, hc, sched, le, mj, mon, gn>>

\* 5b. Camofox browser check
TkCamofox ==
    /\ tk.pc = "camofox"
    /\ \E ok \in BOOLEAN, ok2 \in BOOLEAN :
          tk' = TkChecked(IF ok THEN tk
                          ELSE IF ok2 THEN TkWarn(tk)
                          ELSE TkFail(TkWarn(tk)),
                          "logs")
    /\ UNCHANGED <<wdVars, probeLog, hc, sched, le, mj, mon, gn>>

\* 6. Log size check: one warn for each file of 500 MB or more
TkLogs ==
    /\ tk.pc = "logs"
    /\ \E big \in 0..MaxBigLogs :
          tk' = TkChecked([tk EXCEPT !.warnEvents = @ + big,
                                     !.WARNINGS = @ + big], "summary")
    /\ UNCHANGED <<wdVars, probeLog, hc, sched, le, mj, mon, gn>>

\* Summary; the script ends with the status of its last command, log "".
TkSummary ==
    /\ tk.pc = "summary"
    /\ tk' = [tk EXCEPT !.summary = IF tk.FAILURES = 0 /\ tk.WARNINGS = 0
                                     THEN "PASSED" ELSE "COMPLETE",
                         !.exit = 0, !.pc = "done"]
    /\ UNCHANGED <<wdVars, probeLog, hc, sched, le, mj, mon, gn>>

NextHealth ==
    \/ HcStart
    \/ HcCheck
    \/ HcRestart
    \/ TkStart
    \/ TkGateway
    \/ TkRpc
    \/ TkWhatsapp
    \/ TkHeartbeat
    \/ TkDiskMemory
    \/ TkCamofox
    \/ TkLogs
    \/ TkSummary

SpecHealth == InitOther /\ [][NextHealth]_vars

\* ------------------------------------------------------------------ claims
\* An invocation of p has ended with both probes failed.
BothFailed(p) == pc[p] = "done" /\ run[p].p1 = "fail" /\ run[p].p2 = "fail"

\* An invocation of p has ended healthy: the first probe succeeded, or the
\* first failed and the re-probe succeeded.
EndedHealthy(p) == pc[p] = "done" /\ (run[p].p1 = "ok" \/ run[p].p2 = "ok")

\* C1: whatever the probes return, an invocation calls try_send at most
\* twice and restart_gateway at most once, up to and including its exit.
C1_AtMostTwoProbesOneRestart ==
    \A p \in Procs : run[p].probes <= 2 /\ run[p].restarts <= 1

\* An invocation has ended after two probes and one restart.
C1_Witness ==
    \E p \in Procs : pc[p] = "done" /\ run[p].probes = 2 /\ run[p].restarts = 1

\* C2: a failing invocation that starts less than cooldown seconds after
\* the recorded alert dispatches nothing, neither call nor email, with or
\* without voice credentials; so within an outage no dispatch comes less
\* than cooldown seconds after the previous one.
C2_NoDispatchInsideCooldown ==
    \A p \in Procs :
        /\ (BothFailed(p) /\ now[p] - last_alert[p] < cooldown)
              => (run[p].calls = 0 /\ run[p].emails = 0)
        /\ ~run[p].early

\* C3: an invocation whose two probes failed exits 1 and has called
\* send_alert exactly once; no invocation calls it more than once.
C3_BothFailExitOneAlertOnce ==
    \A p \in Procs :
        /\ run[p].alerts <= 1
        /\ BothFailed(p) => (run[p].exit = 1 /\ run[p].alerts = 1)

\* An invocation has ended after two failed probes.
C3_Witness == \E p \in Procs : BothFailed(p) /\ run[p].alerts = 1

\* C4: an invocation that ends healthy exits 0 and leaves 0 in the state
\* file whatever it held; an invocation with two failed probes that follows
\* a healthy one dispatches its alert, however recent the earlier alert.
C4_HealthyClearsState ==
    /\ \A p \in Procs :
          EndedHealthy(p) => (run[p].exit = 0 /\ stateFile = Num(0))
    /\ (Len(hist) = 2 /\ hist[1].exit = 0 /\ hist[2].p2 = "fail")
          => hist[2].dispatched

\* With voice credentials set, a healthy run has cleared a recorded alert and
\* the failing run after it, less than cooldown seconds after that alert, has
\* dispatched.
C4_Witness ==
    /\ ~TwilioMissing(env)
    /\ Len(hist) = 2
    /\ hist[1].exit = 0 /\ hist[1].fileAtStart.val > 0 /\ hist[1].file = Num(0)
    /\ hist[2].p2 = "fail" /\ hist[2].dispatched
    /\ hist[2].now - hist[1].fileAtStart.val < cooldown

\* C5: in an invocation whose first probe succeeded, restart_gateway and
\* send_alert are never called, and nothing is dispatched.
C5_HealthyFirstProbeNoRecovery ==
    \A p \in Procs :
        run[p].p1 = "ok" =>
            /\ run[p].restarts = 0 /\ run[p].alerts = 0
            /\ run[p].calls = 0 /\ run[p].emails = 0
            /\ run[p].probes = 1

\* An invocation has ended after a successful first probe.
C5_Witness == \E p \in Procs : pc[p] = "done" /\ run[p].p1 = "ok"

\* C6: a failing invocation that starts cooldown seconds or more after the
\* recorded alert dispatches an alert and leaves exactly $now in the state
\* file.
C6_AlertAfterCooldownStampsNow ==
    \A p \in Procs :
        (BothFailed(p) /\ now[p] - last_alert[p] >= cooldown) =>
            /\ run[p].calls + run[p].emails > 0
            /\ stateFile = Num(now[p])

\* With voice credentials set, a failing invocation has run cooldown seconds
\* or more after an earlier alert.
C6_Witness ==
    \E p \in Procs :
        /\ BothFailed(p) /\ ~TwilioMissing(env)
        /\ last_alert[p] > 0 /\ now[p] - last_alert[p] >= cooldown
        /\ run[p].calls = 1 /\ stateFile = Num(now[p])

\* C7: a failing invocation that found no state file dispatches an alert.
C7_MissingStateStillAlerts ==
    \A p \in Procs :
        (BothFailed(p) /\ run[p].fileAtStart = Absent) =>
            (run[p].emails = 1 /\ last_alert[p] = 0)

\* With voice credentials set, a failing invocation has found no state file.
C7_Witness ==
    \E p \in Procs :
        /\ BothFailed(p) /\ run[p].fileAtStart = Absent /\ ~TwilioMissing(env)
        /\ run[p].calls = 1 /\ run[p].emails = 1

\* C8: with any voice credential unset, a failing invocation logs that it
\* skips the call, attempts no call, sends the email, and exits 1.
C8_NoVoiceCredentialsEmailStillSent ==
    \A p \in Procs :
        (BothFailed(p) /\ (\E v \in TwilioVars : ~env[v])) =>
            /\ run[p].skipLogged /\ run[p].calls = 0
            /\ run[p].emails = 1 /\ run[p].exit = 1

\* A failing invocation has ended with one credential unset and another set.
C8_Witness ==
    \E p \in Procs :
        /\ BothFailed(p)
        /\ \E v, w \in TwilioVars : ~env[v] /\ env[w]
        /\ run[p].emails = 1

\* C9: of two invocations in a row whose first probe succeeded, both exit 0
\* and the second leaves the state file as the first left it.
C9_HealthyRunsIdempotent ==
    (Len(hist) = 2 /\ hist[1].p1 = "ok" /\ hist[2].p1 = "ok") =>
        /\ hist[1].exit = 0 /\ hist[2].exit = 0
        /\ hist[2].file = hist[1].file

\* Two invocations in a row have ended after a successful first probe, the
\* clock having advanced between them.
C9_Witness ==
    /\ Len(hist) = 2 /\ hist[1].p1 = "ok" /\ hist[2].p1 = "ok"
    /\ hist[2].now > hist[1].now

\* C10: the state file is absent, holds 0, or holds $now of the latest
\* invocation that dispatched an alert.
C10_StateIsZeroOrLastDispatch ==
    \/ stateFile \in {Absent, Num(0)}
    \/ (lastDispatch # 0 /\ stateFile = Num(lastDispatch))

\* An invocation suppressed by the cooldown has ended, and the state file
\* still holds the time of the earlier dispatch.
C10_Witness ==
    \E p \in Procs :
        /\ BothFailed(p) /\ run[p].cooldownLogged
        /\ stateFile = Num(lastDispatch) /\ lastDispatch < now[p]

\* C11: within an invocation restart_gateway runs only after the first probe
\* has failed and before the re-probe, and send_alert runs only after the
\* re-probe has failed: no restart without a failed first probe, no re-probe
\* without the restart, no alert without a failed re-probe.
C11_RecoveryAndEscalationInOrder ==
    \A p \in Procs :
        /\ run[p].restarts > 0 => run[p].p1 = "fail"
        /\ run[p].p2 # "none" => (run[p].p1 = "fail" /\ run[p].restarts = 1)
        /\ pc[p] = "probe2" => (run[p].restarts = 1 /\ run[p].p2 = "none")
        /\ (run[p].alerts > 0 \/ pc[p] = "escalate")
              => (run[p].p2 = "fail" /\ run[p].restarts = 1)

\* An invocation has gone through restart, failed re-probe and send_alert.
C11_Witness ==
    \E p \in Procs :
        /\ pc[p] = "done" /\ run[p].alerts = 1
        /\ run[p].restarts = 1 /\ run[p].p1 = "fail" /\ run[p].p2 = "fail"

\* The invocations between their start and their exit.
Running == {p \in Procs : pc[p] \notin {"idle", "done"}}

\* C12: at most one invocation is between its start and its exit at any
\* time, and an invocation started while another was running does nothing:
\* no probe, no restart, no alert, no write of the state file.
C12_AtMostOneInvocationInside ==
    /\ Cardinality(Running) <= 1
    /\ \A p \in Procs :
          run[p].overlap =>
              /\ run[p].probes = 0 /\ run[p].restarts = 0
              /\ run[p].alerts = 0 /\ run[p].writes = 0

\* C13: a write of the state file is an atomic replacement: no invocation
\* reads the file empty, and no invocation that was terminated leaves it
\* empty.
C13_StateFileNeverTorn ==
    /\ \A p \in Procs : run[p].fileAtStart.kind # "empty"
    /\ NoneRunning => stateFile.kind # "empty"

\* C14: an invocation that finds the state file empty or holding text that
\* is no number still probes, restarts and re-probes, and when both probes
\* fail it dispatches an alert and exits 1.
C14_UnparsableStateStillAlerts ==
    \A p \in Procs :
        (BothFailed(p) /\ run[p].fileAtStart.kind \in {"empty", "word", "garbage"})
            => /\ run[p].probes = 2 /\ run[p].restarts = 1
               /\ run[p].calls + run[p].emails > 0
               /\ run[p].exit = 1

\* C15: when send_alert is not stopped by the cooldown, the email is
\* attempted whether the call was skipped, failed or succeeded, and with the
\* credentials set the call is attempted whether the email fails or not.
C15_ChannelsIndependent ==
    \A p \in Procs :
        (pc[p] = "done" /\ run[p].alerts = 1 /\ ~run[p].cooldownLogged) =>
            /\ run[p].emails = 1 /\ run[p].emailRc # "none"
            /\ (run[p].skipLogged \/ run[p].callRc = "fail") => run[p].emails = 1
            /\ ~TwilioMissing(env) => (run[p].calls = 1 /\ run[p].callRc # "none")

\* An invocation has ended whose call failed and whose email was sent.
C15_Witness ==
    \E p \in Procs :
        /\ pc[p] = "done" /\ run[p].callRc = "fail"
        /\ run[p].emails = 1 /\ run[p].emailRc = "ok"

\* C16: with two failed probes and the cooldown expired, whatever the call
\* and the email return, the invocation exits 1, leaves $now in the state
\* file, and calls send_alert, the call and the email once each at most: a
\* failed sender causes no retry and no further alert.
C16_SenderOutcomeDoesNotChangeVerdict ==
    \A p \in Procs :
        (BothFailed(p) /\ now[p] - last_alert[p] >= cooldown) =>
            \A c \in {"none", "ok", "fail"}, m \in {"ok", "fail"} :
                (run[p].callRc = c /\ run[p].emailRc = m) =>
                    /\ run[p].exit = 1
                    /\ stateFile = Num(now[p])
                    /\ run[p].alerts = 1 /\ run[p].emails = 1
                    /\ run[p].calls <= 1 /\ run[p].probes = 2
                    /\ run[p].restarts = 1

\* An invocation has ended whose call and email both failed.
C16_Witness ==
    \E p \in Procs :
        /\ BothFailed(p) /\ now[p] - last_alert[p] >= cooldown
        /\ run[p].callRc = "fail" /\ run[p].emailRc = "fail"

\* C17: an invocation that has started always has a next step of its own
\* until it has exited, even when an external command never returns: a
\* timeout ends the wait for the probe command.
C17_InvocationNeverWedged ==
    \A p \in Procs :
        pc[p] \notin {"idle", "done"} => ENABLED ScriptStep(p)

\* The probes run so far.
Probed == {probeLog[i] : i \in 1..Len(probeLog)}

\* C18 (as stated): a probe reports healthy only when its command exited 0
\* and printed no "disconnected"; this for try_send and for check_whatsapp.
C18_HealthyOnlyOnExitZeroAndNoMarker ==
    \A e \in Probed :
        /\ e.ret \in {0, 1}
        /\ e.ret = 0 => (e.rc = 0 /\ ~Grep(e.out, "disconnected"))

\* C18 (amended): try_send reports healthy exactly when its command exited
\* 0, whatever it printed; check_whatsapp reports healthy exactly when the
\* output holds "connected" and no "disconnected", whatever the exit code;
\* both return 0 or 1 and nothing else.
C18_ProbeVerdicts ==
    \A e \in Probed :
        /\ e.ret \in {0, 1}
        /\ e.fn = "try_send" => (e.ret = 0 <=> e.rc = 0)
        /\ e.fn = "check_whatsapp" =>
              (e.ret = 0 <=> ("connected" \in e.out /\ "disconnected" \notin e.out))

\* try_send has reported healthy on output that says disconnected, and
\* check_whatsapp has reported healthy on a command that exited non-zero.
C18_Witness ==
    /\ \E e \in Probed :
          e.fn = "try_send" /\ e.ret = 0 /\ "disconnected" \in e.out
    /\ \E e \in Probed :
          e.fn = "check_whatsapp" /\ e.ret = 0 /\ e.rc # 0

\* -------------------------------------------------------- run-scheduled.sh
\* Hours by which Asia/Jerusalem is ahead of America/New_York: 7, and 6 in
\* the weeks when only one of the two zones is on summer time.
NyOffsets == {6, 7}

\* Exit statuses node dist/index.js may end with.
NodeExitCodes == {0, 1}

\* The Shabbat and time-window checks: the reason to skip, or "run".
TimeCheck(day, hour, ny) ==
    IF day = 6 THEN "shabbat-saturday"
    ELSE IF day = 5 /\ hour >= 18 THEN "shabbat-friday"
    ELSE IF hour < 9 THEN "before-9am-israel"
    ELSE IF ny >= 18 THEN "after-6pm-ny"
    ELSE "run"

\* cron starts run-scheduled.sh, which reads the clock in both zones.
SchedStart ==
    /\ sched.pc \in {"idle", "done"}
    /\ \E day \in 1..7, hour \in 0..23, off \in NyOffsets :
          sched' = [SchedIdle EXCEPT !.pc = "check", !.ISRAEL_DAY = day,
                                     !.ISRAEL_HOUR = hour,
                                     !.NY_HOUR = (hour + 24 - off) % 24]
    /\ UNCHANGED <<wdVars, probeLog, hc, tk, le, mj, mon, gn>>

\* The checks either exit 0 or let the script go on to the processor.
SchedTimeCheck ==
    /\ sched.pc = "check"
    /\ LET d == TimeCheck(sched.ISRAEL_DAY, sched.ISRAEL_HOUR, sched.NY_HOUR)
       IN  sched' = [sched EXCEPT !.decision = d,
                                  !.pc = IF d = "run" THEN "run" ELSE "done",
                                  !.exit = 0]
    /\ UNCHANGED <<wdVars, probeLog, hc, tk, le, mj, mon, gn>>

\* cd "$SCHEDULER_DIR" under set -e, then node dist/index.js, whose status
\* is the script's.
SchedRun ==
    /\ sched.pc = "run"
    /\ \E cdOk \in BOOLEAN, rc \in NodeExitCodes :
          sched' = [sched EXCEPT !.cdFailed = ~cdOk, !.started = cdOk,
                                 !.exit = IF cdOk THEN rc ELSE 1,
                                 !.pc = "done"]
    /\ UNCHANGED <<wdVars, probeLog, hc, tk, le, mj, mon, gn>>

NextSched ==
    \/ SchedStart
    \/ SchedTimeCheck
    \/ SchedRun

SpecSched == InitOther /\ [][NextSched]_vars

\* ------------------------------------------------------------ load-env.sh
\* How many lines a .env file of the model has at most.
MaxEnvLines == 2

\* The job names of the case statement, and one that is not among them.
KnownJobs == {"meeting-reminders", "meeting-bot", "email-to-deal",
              "founder-scout", "watchdog"}
Jobs == KnownJobs \cup {"other-job"}

\* The export_var calls of each job.
JobVars(job) ==
    CASE job = "meeting-reminders" ->
            {"GOG_KEYRING_PASSWORD", "GOG_ACCOUNT", "MATON_API_KEY",
             "ANTHROPIC_API_KEY", "BRAVE_SEARCH_API_KEY"}
      [] job = "meeting-bot" ->
            {"GOG_KEYRING_PASSWORD", "GOG_ACCOUNT", "ANTHROPIC_API_KEY"}
      [] job = "email-to-deal" ->
            {"GOG_KEYRING_PASSWORD", "GOG_ACCOUNT", "MATON_API_KEY",
             "ANTHROPIC_API_KEY"}
      [] job = "founder-scout" ->
            {"ANTHROPIC_API_KEY", "GOG_KEYRING_PASSWORD", "GOG_ACCOUNT"}
      [] job = "watchdog" ->
            {"ASSISTANT_WHATSAPP_PHONE", "ALERT_PHONE", "ALERT_EMAIL",
             "GOG_ACCOUNT", "GOG_KEYRING_PASSWORD", "TWILIO_ACCOUNT_SID",
             "TWILIO_API_KEY_SID", "TWILIO_API_KEY_SECRET",
             "TWILIO_FROM_NUMBER"}
      [] OTHER -> {}

\* The lines a .env file of the model is made of, after the trimming of
\* leading whitespace: key is the text before the first "=", val the text
\* after it.
EnvLines == { [kind |-> "assign", key |-> "GOG_ACCOUNT", val |-> "a"],
              [kind |-> "assign", key |-> "GOG_ACCOUNT", val |-> "b"],
              [kind |-> "assign", key |-> "MATON_API_KEY", val |-> "m"],
              [kind |-> "assign", key |-> "FOO", val |-> "x"],
              [kind |-> "assign", key |-> "", val |-> "x"],
              [kind |-> "comment", key |-> "", val |-> ""] }

\* The .env files of the model; terminated says whether the last line ends
\* with a newline.
EnvFiles ==
    {NoEnvFile} \cup
    { [exists |-> TRUE, lines |-> l, terminated |-> t] :
        l \in UNION { [1..n -> EnvLines] : n \in 0..MaxEnvLines },
        t \in BOOLEAN }

\* while IFS= read -r line; do ... done < "$ENV_FILE": read fails on a last
\* line that has no newline, so the loop body does not see that line.
ReadLines(file) ==
    IF file.terminated \/ file.lines = << >> THEN file.lines
    ELSE SubSeq(file.lines, 1, Len(file.lines) - 1)

\* ALL_VARS["$key"]="$val"
SetVar(all, key, val) ==
    [k \in (DOMAIN all) \cup {key} |-> IF k = key THEN val ELSE all[k]]

\* The read loop over lines from the i-th on, with ALL_VARS as all so far:
\* the array, or ok = FALSE when an empty subscript has ended the script
\* (set -e).
RECURSIVE ReadEnv(_, _, _)
ReadEnv(lines, i, all) ==
    IF i > Len(lines) THEN [ok |-> TRUE, vars |-> all]
    ELSE IF lines[i].kind # "assign" THEN ReadEnv(lines, i + 1, all)
    ELSE IF lines[i].key = "" THEN [ok |-> FALSE, vars |-> all]
    ELSE ReadEnv(lines, i + 1, SetVar(all, lines[i].key, lines[i].val))

\* The variables the case statement exports from ALL_VARS.
ExportedVars(job, all) ==
    IF job \in KnownJobs
    THEN [k \in (DOMAIN all) \cap JobVars(job) |-> all[k]]
    ELSE all

\* load-env.sh <job> -- <command>: whether the command is launched, and the
\* variables added to its environment.
load_env(job, file) ==
    IF ~file.exists THEN [launched |-> TRUE, env |-> << >>]
    ELSE LET read == ReadEnv(ReadLines(file), 1, << >>)
         IN  IF read.ok
             THEN [launched |-> TRUE, env |-> ExportedVars(job, read.vars)]
             ELSE NotLaunched

\* load-env.sh is about to be run for one job with each of two .env files.
LeStart ==
    /\ le.pc = "idle"
    /\ \E job \in Jobs, a \in EnvFiles, b \in EnvFiles :
          le' = [LeIdle EXCEPT !.pc = "run", !.JOB = job, !.fileA = a,
                               !.fileB = b]
    /\ UNCHANGED <<wdVars, probeLog, hc, tk, sched, mj, mon, gn>>

\* The two runs.
LeRun ==
    /\ le.pc = "run"
    /\ le' = [le EXCEPT !.pc = "done",
                        !.resA = load_env(le.JOB, le.fileA),
                        !.resB = load_env(le.JOB, le.fileB)]
    /\ UNCHANGED <<wdVars, probeLog, hc, tk, sched, mj, mon, gn>>

NextLoadEnv ==
    \/ LeStart
    \/ LeRun

SpecLoadEnv == InitOther /\ [][NextLoadEnv]_vars

\* ------------------------------------------------- meeting joiner: main
\* ALLOWED_DOMAINS
ALLOWED_DOMAINS == {"meet.google.com", "zoom.us", "teams.microsoft.com",
                    "teams.live.com"}

\* The host parts of the meeting URLs of the model.
UrlHosts == {"meet.google.com", "MEET.GOOGLE.COM", "zoom.us",
             "us02web.zoom.us", "teams.microsoft.com", "teams.live.com",
             "evil.meet.google.com", "meet.google.com.evil.com",
             "accounts.google.com"}

\* What MEETING_URL may be: not given, a text new URL() throws on, or a URL
\* with one of the hosts.
MeetingUrls ==
    { [given |-> FALSE, parses |-> FALSE, host |-> ""],
      [given |-> TRUE, parses |-> FALSE, host |-> ""] } \cup
    { [given |-> TRUE, parses |-> TRUE, host |-> h] : h \in UrlHosts }

\* new URL(MEETING_URL).hostname: the host in lower case.
hostname(url) ==
    IF url.host = "MEET.GOOGLE.COM" THEN "meet.google.com" ELSE url.host

\* Whether host h is domain d or a subdomain of it.
InDomain(h, d) ==
    \/ h = d
    \/ (h = "evil.meet.google.com" /\ d = "meet.google.com")
    \/ (h = "us02web.zoom.us" /\ d = "zoom.us")

\* (a variant: subdomains of the allowed domains pass)
HostAllowedWithSubdomains(h) == \E d \in ALLOWED_DOMAINS : InDomain(h, d)

\* ALLOWED_DOMAINS.has(meetingHost)
HostAllowed(h) == h \in ALLOWED_DOMAINS

\* process.exit(code), or the end of the process, with the way it got there.
MjExit(m, code, path) == [m EXCEPT !.pc = "exited", !.exit = code, !.path = path]

\* catch (error) { ...; process.exit(1) }: the process ends inside the catch
\* block.
MjCatch(m) == MjExit(m, 1, "error")

\* node camofox-join.js <meeting-url> [metadata-file]
MjStart ==
    /\ mj.pc = "idle"
    /\ \E u \in MeetingUrls : mj' = [MjIdle EXCEPT !.pc = "validate", !.url = u]
    /\ UNCHANGED <<wdVars, probeLog, hc, tk, sched, le, mon, gn>>

\* if (!MEETING_URL) ...; Validate meeting URL domain
MjValidate ==
    /\ mj.pc = "validate"
    /\ mj' = IF ~mj.url.given THEN MjExit(mj, 1, "no-url")
             ELSE IF ~mj.url.parses THEN MjExit(mj, 1, "invalid-url")
             ELSE IF ~HostAllowed(hostname(mj.url)) THEN MjExit(mj, 1, "invalid-domain")
             ELSE [mj EXCEPT !.pc = "launch"]
    /\ UNCHANGED <<wdVars, probeLog, hc, tk, sched, le, mon, gn>>

\* Load meeting metadata if provided; then, in the main function,
\* launchOptions(...); browser = await firefox.launch(opts)
MjLaunch ==
    /\ mj.pc = "launch"
    /\ \E meta \in BOOLEAN, ok \in BOOLEAN :
          LET m == [mj EXCEPT !.meetingMeta = meta]
          IN  mj' = IF ok THEN [m EXCEPT !.browser = "open", !.pc = "context"]
                    ELSE MjCatch(m)
    /\ UNCHANGED <<wdVars, probeLog, hc, tk, sched, le, mon, gn>>

\* context = await browser.newContext(...)
MjNewContext ==
    /\ mj.pc = "context"
    /\ \E ok \in BOOLEAN :
          mj' = IF ok THEN [mj EXCEPT !.context = "open", !.pc = "page"]
                ELSE MjCatch(mj)
    /\ UNCHANGED <<wdVars, probeLog, hc, tk, sched, le, mon, gn>>

\* The cookies, then page = await context.newPage()
MjNewPage ==
    /\ mj.pc = "page"
    /\ \E ok \in BOOLEAN :
          mj' = IF ok THEN [mj EXCEPT !.page = TRUE, !.pc = "goto"]
                ELSE MjCatch(mj)
    /\ UNCHANGED <<wdVars, probeLog, hc, tk, sched, le, mon, gn>>

\* await page.goto(MEETING_URL, ...), and the test for the login redirect
MjGoto ==
    /\ mj.pc = "goto"
    /\ \E ok \in BOOLEAN, login \in BOOLEAN :
          mj' = IF ~ok THEN MjCatch(mj)
                ELSE IF login THEN MjExit([mj EXCEPT !.navigated = TRUE], 1, "login")
                ELSE [mj EXCEPT !.navigated = TRUE, !.pc = "join"]
    /\ UNCHANGED <<wdVars, probeLog, hc, tk, sched, le, mon, gn>>

\* page.title(), muting, Gemini note-taking, the Join button
MjJoin ==
    /\ mj.pc = "join"
    /\ \E titleOk \in BOOLEAN, joined \in BOOLEAN :
          mj' = IF ~titleOk THEN MjCatch(mj)
                ELSE IF joined THEN [mj EXCEPT !.pc = "monitor"]
                ELSE MjExit(mj, 1, "no-join")
    /\ UNCHANGED <<wdVars, probeLog, hc, tk, sched, le, mon, gn>>

\* Attendance monitoring setup and the monitoring loop, which end or throw
MjMonitor ==
    /\ mj.pc = "monitor"
    /\ \E ok \in BOOLEAN :
          mj' = IF ok THEN [mj EXCEPT !.pc = "notes"] ELSE MjCatch(mj)
    /\ UNCHANGED <<wdVars, probeLog, hc, tk, sched, le, mon, gn>>

\* if (meetingMeta) { try { await processGeminiNotes(...) } catch ... }
MjNotes ==
    /\ mj.pc = "notes"
    /\ mj' = [mj EXCEPT !.notesRun = mj.meetingMeta, !.pc = "finally"]
    /\ UNCHANGED <<wdVars, probeLog, hc, tk, sched, le, mon, gn>>

\* finally { context.close(); browser.close() }, after which the process
\* ends with status 0
MjFinally ==
    /\ mj.pc = "finally"
    /\ mj' = MjExit([mj EXCEPT !.context = IF @ = "open" THEN "closed" ELSE @,
                               !.browser = IF @ = "open" THEN "closed" ELSE @],
                    0, "normal")
    /\ UNCHANGED <<wdVars, probeLog, hc, tk, sched, le, mon, gn>>

NextJoiner ==
    \/ MjStart
    \/ MjValidate
    \/ MjLaunch
    \/ MjNewContext
    \/ MjNewPage
    \/ MjGoto
    \/ MjJoin
    \/ MjMonitor
    \/ MjNotes
    \/ MjFinally

SpecJoiner == InitOther /\ [][NextJoiner]_vars

\* ------------------------------------- meeting joiner: monitoring loop
\* Date.now() - meetingStartTime when the loop starts, in ms: the bot may
\* join at the meeting's start time or minutes after it.
StartLags == {0, 300000}

\* (a variant: the +3 minute check does not test whatsappSent)
Check3DueEveryTime(elapsedMs, sent) == elapsedMs >= 3 * 60000

\* elapsedMin >= 3 && Object.keys(whatsappSent).length === 0
Check3Due(elapsedMs, sent) == elapsedMs >= 3 * 60000 /\ sent = {}

\* elapsedMin >= 5 && Object.keys(whatsappSent).length > 0 &&
\* Object.keys(escalated).length === 0
Check5Due(elapsedMs, sent, esc) ==
    elapsedMs >= 5 * 60000 /\ sent # {} /\ esc = {}

\* The +3 minute check, with the members readParticipants shows as present.
Check3(m, present) ==
    LET missing == m.expectedAttendees \ present
    IN  [m EXCEPT !.check3Runs = @ + 1,
                  !.reminders = [x \in Members |->
                                    IF x \in missing THEN @[x] + 1 ELSE @[x]],
                  !.lateSends = IF m.attendanceComplete /\ missing # {}
                                THEN @ + 1 ELSE @,
                  !.whatsappSent = @ \cup missing,
                  !.attendanceComplete = IF m.whatsappSent \cup missing = {}
                                         THEN TRUE ELSE @]

\* The +5 minute check, with the members readParticipants shows as present.
Check5(m, present) ==
    LET still == (m.expectedAttendees \cap m.whatsappSent) \ present
    IN  [m EXCEPT !.check5Runs = @ + 1,
                  !.present5 = present,
                  !.escalations = [x \in Members |->
                                      IF x \in still THEN @[x] + 1 ELSE @[x]],
                  !.lateSends = IF m.attendanceComplete /\ still # {}
                                THEN @ + 1 ELSE @,
                  !.escalated = @ \cup still,
                  !.attendanceComplete = TRUE]

\* Attendance checks of one iteration.
AttendanceChecks(m, present3, present5) ==
    IF ~m.attendanceComplete /\ m.expectedAttendees # {}
    THEN LET elapsedMs == m.lag + m.elapsed
             a == IF Check3Due(elapsedMs, m.whatsappSent)
                  THEN Check3(m, present3) ELSE m
         IN  IF Check5Due(elapsedMs, a.whatsappSent, a.escalated)
             THEN Check5(a, present5) ELSE a
    ELSE m

\* Attendance monitoring setup, the signal handlers, startTime.
MonStart ==
    /\ mon.pc = "idle"
    /\ \E exp \in SUBSET Members, lag \in StartLags :
          mon' = [MonIdle EXCEPT !.pc = "test", !.expectedAttendees = exp,
                                 !.lag = lag,
                                 !.attendanceComplete = (exp = {})]
    /\ UNCHANGED <<wdVars, probeLog, hc, tk, sched, le, mj, gn>>

\* SIGINT or SIGTERM: stopping = true
MonSignal ==
    /\ mon.pc \in {"test", "sleep", "body"}
    /\ ~mon.stopping
    /\ mon' = [mon EXCEPT !.stopping = TRUE, !.sigIter = mon.iter]
    /\ UNCHANGED <<wdVars, probeLog, hc, tk, sched, le, mj, gn>>

\* (a variant: the loop has no limit of duration)
MonTestNoLimit ==
    /\ mon.pc = "test"
    /\ mon' = IF mon.stopping
              THEN [mon EXCEPT !.pc = "left", !.reason = "signal"]
              ELSE [mon EXCEPT !.pc = "sleep", !.iter = @ + 1]
    /\ UNCHANGED <<wdVars, probeLog, hc, tk, sched, le, mj, gn>>

\* while (!stopping && Date.now() - startTime < MAX_DURATION_MS)
MonTest ==
    /\ mon.pc = "test"
    /\ mon' = IF mon.stopping
              THEN [mon EXCEPT !.pc = "left", !.reason = "signal"]
              ELSE IF ~(mon.elapsed < MAX_DURATION_MS)
              THEN [mon EXCEPT !.pc = "left", !.reason = "duration"]
              ELSE [mon EXCEPT !.pc = "sleep", !.iter = @ + 1]
    /\ UNCHANGED <<wdVars, probeLog, hc, tk, sched, le, mj, gn>>

\* await sleep(CHECK_INTERVAL_MS)
MonSleep ==
    /\ mon.pc = "sleep"
    /\ mon' = [mon EXCEPT !.pc = "body", !.elapsed = @ + CHECK_INTERVAL_MS]
    /\ UNCHANGED <<wdVars, probeLog, hc, tk, sched, le, mj, gn>>

\* The rest of the iteration: the two tests for the end of the meeting, then
\* the attendance checks.
MonBody ==
    /\ mon.pc = "body"
    /\ \E onMeet \in BOOLEAN, meetingEnded \in BOOLEAN,
          present3 \in SUBSET Members, present5 \in SUBSET Members :
          mon' = IF ~onMeet
                 THEN [mon EXCEPT !.pc = "left", !.reason = "redirected"]
                 ELSE IF meetingEnded
                 THEN [mon EXCEPT !.pc = "left", !.reason = "ended"]
                 ELSE [AttendanceChecks(mon, present3, present5)
                          EXCEPT !.pc = "test"]
    /\ UNCHANGED <<wdVars, probeLog, hc, tk, sched, le, mj, gn>>

NextMonitor ==
    \/ MonStart
    \/ MonSignal
    \/ MonTest
    \/ MonSleep
    \/ MonBody

SpecMonitor == InitOther /\ [][NextMonitor]_vars

\* The event loop runs every step of the loop that is ready: the test of
\* the while, the timer of the sleep, the rest of the iteration.
SpecMonitorLive ==
    /\ InitOther /\ [][NextMonitor]_vars
    /\ WF_vars(MonTest) /\ WF_vars(MonSleep) /\ WF_vars(MonBody)

\* ---------------------------------- meeting joiner: processGeminiNotes
\* What one search attempt may come to: execSync or JSON.parse throws, no
\* message, a message whose subject has the title, or only other messages
\* (the most recent one is taken).
SearchOutcomes == {"throws", "none", "title-match", "most-recent"}

\* What the parsing of the notes body may come to.
ParseOutcomes == {"no-items", "unassigned", "assigned"}

\* archiveNotesEmail: one call, whose own failure is caught inside it.
archiveNotesEmail(g) == [g EXCEPT !.archives = @ + 1]

\* processGeminiNotes(meetingTitle) is called.
GnStart ==
    /\ gn.pc = "idle"
    /\ \E title \in BOOLEAN :
          gn' = IF title THEN [gn EXCEPT !.pc = "search"]
                ELSE [gn EXCEPT !.pc = "done", !.path = "no-title"]
    /\ UNCHANGED <<wdVars, probeLog, hc, tk, sched, le, mj, mon>>

\* One turn of for (let attempt = 0; attempt < 3; attempt++), with the wait
\* that follows the attempt, and the test after the loop.
GnSearch ==
    /\ gn.pc = "search"
    /\ \E o \in SearchOutcomes :
          LET found == o \in {"title-match", "most-recent"}
              tried == [gn EXCEPT !.searches = @ + 1,
                                  !.outcomes = Append(@, o),
                                  !.notesEmail = found]
              waited == IF gn.attempt < 2
                        THEN [tried EXCEPT !.waits = @ + 1] ELSE tried
              next == [waited EXCEPT !.attempt = @ + 1]
          IN  gn' = IF found THEN [tried EXCEPT !.pc = "parse"]
                    ELSE IF next.attempt < 3 THEN next
                    ELSE [next EXCEPT !.pc = "done", !.path = "not-found"]
    /\ UNCHANGED <<wdVars, probeLog, hc, tk, sched, le, mj, mon>>

\* The action items of the notes and the members they name; the two early
\* returns archive the thread.
GnParse ==
    /\ gn.pc = "parse"
    /\ \E o \in ParseOutcomes, named \in (SUBSET Members) \ {{}} :
          gn' = IF o = "no-items"
                THEN [archiveNotesEmail(gn) EXCEPT !.pc = "done", !.path = "no-items"]
                ELSE IF o = "unassigned"
                THEN [archiveNotesEmail(gn) EXCEPT !.pc = "done", !.path = "unassigned"]
                ELSE [gn EXCEPT !.pc = "send", !.memberItems = named]
    /\ UNCHANGED <<wdVars, probeLog, hc, tk, sched, le, mj, mon>>

\* (a variant: the first email that fails ends the function)
GnSendStopsOnFailure ==
    /\ gn.pc = "send"
    /\ \E failed \in SUBSET gn.memberItems :
          gn' = IF failed = {}
                THEN [archiveNotesEmail([gn EXCEPT !.emailsTried = gn.memberItems,
                                                   !.emailsSent = gn.memberItems])
                         EXCEPT !.pc = "done", !.path = "sent"]
                ELSE [gn EXCEPT !.emailsTried = failed, !.pc = "done",
                                !.path = "sent"]
    /\ UNCHANGED <<wdVars, probeLog, hc, tk, sched, le, mj, mon>>

\* Send email to each team member with their action items, each in its own
\* try, then archive the notes email.
GnSend ==
    /\ gn.pc = "send"
    /\ \E failed \in SUBSET gn.memberItems :
          gn' = [archiveNotesEmail([gn EXCEPT !.emailsTried = gn.memberItems,
                                              !.emailsSent = gn.memberItems \ failed])
                    EXCEPT !.pc = "done", !.path = "sent"]
    /\ UNCHANGED <<wdVars, probeLog, hc, tk, sched, le, mj, mon>>

NextNotes ==
    \/ GnStart
    \/ GnSearch
    \/ GnParse
    \/ GnSend

SpecNotes == InitOther /\ [][NextNotes]_vars

\* whatsapp-healthcheck.sh has ended with WhatsApp still unhealthy.
HcGaveUp == hc.pc = "done" /\ hc.last = "fail"

\* health-check.sh has ended with WhatsApp still not connected after the
\* restart and the re-probe.
TkWaStillDown == tk.pc = "done" /\ tk.wa2 = "bad"

\* health-check.sh has ended with WhatsApp connected, at once or after the
\* restart.
TkWaUp == tk.pc = "done" /\ (tk.wa1 = "ok" \/ tk.wa2 = "ok")

InShabbat(day, hour) == (day = 5 /\ hour >= 18) \/ (day = 6 /\ hour < 20)

\* C20: run-scheduled.sh starts the processor exactly when the Israel hour is
\* at least 9, the New York hour is below 18 and Israel time is outside
\* Shabbat (Friday 18:00 to Saturday 20:00); otherwise it exits 0 without
\* starting it. Runs whose cd to the scheduler directory failed are left out.
C20_StartsExactlyInsideWindow ==
    (sched.pc = "done" /\ ~sched.cdFailed) =>
        /\ sched.started <=> /\ sched.ISRAEL_HOUR >= 9
                             /\ sched.NY_HOUR < 18
                             /\ ~InShabbat(sched.ISRAEL_DAY, sched.ISRAEL_HOUR)
        /\ ~sched.started => sched.exit = 0

\* C22: whatsapp-healthcheck.sh restarts the gateway at most twice, each
\* restart followed by exactly one re-check; it ends with exit 0 at the first
\* successful check, and with exit 1 only after the third check, the one
\* after the second restart, has failed.
C22_AtMostTwoRestarts ==
    /\ hc.restarts <= 2 /\ hc.checks <= 3
    /\ hc.pc \in {"check1", "check2", "check3"} => hc.checks = hc.restarts
    /\ hc.pc \in {"restart1", "restart2"} =>
          (hc.checks = hc.restarts + 1 /\ hc.last = "fail")
    /\ hc.pc = "done" =>
          /\ hc.checks = hc.restarts + 1
          /\ hc.exit \in {0, 1}
          /\ hc.exit = 0 <=> hc.last = "ok"
          /\ hc.exit = 1 => (hc.restarts = 2 /\ hc.checks = 3)

\* A run that gave up after two restarts and three checks.
C22_Witness ==
    hc.pc = "done" /\ hc.exit = 1 /\ hc.restarts = 2 /\ hc.checks = 3

\* C24: an invocation whose alert was suppressed by the cooldown sends
\* nothing and leaves the state file as it found it, so the file still holds
\* the time of the last alert that was dispatched.
C24_SuppressedAlertLeavesStateFile ==
    \A p \in Procs :
        (pc[p] = "done" /\ run[p].cooldownLogged) =>
            /\ run[p].writes = 0
            /\ run[p].calls = 0 /\ run[p].emails = 0
            /\ stateFile = run[p].fileAtStart
            /\ stateFile = Num(lastDispatch)
            /\ now[p] - lastDispatch < cooldown

\* An invocation has ended with its alert suppressed by the cooldown.
C24_Witness ==
    \E p \in Procs :
        /\ pc[p] = "done" /\ run[p].cooldownLogged /\ run[p].alerts = 1
        /\ lastDispatch # 0 /\ now[p] > lastDispatch

\* The status line says that WhatsApp is linked, running and connected.
FullyConnected(out) ==
    /\ \E i \in 1..Len(out) : out[i] = "linked"
    /\ \E i \in 1..Len(out) : out[i] = "running"
    /\ \E i \in 1..Len(out) : out[i] = "connected"

\* C25: in health-check.sh the WhatsApp check restarts the gateway at most
\* once, with exactly one re-probe after the restart, and the "WhatsApp
\* Disconnected" email is sent, once, exactly when neither the first probe
\* nor the re-probe showed WhatsApp fully connected.
C25_AlertIffBothProbesNotConnected ==
    tk.wa1 # "none" =>
        /\ tk.waRestarts <= 1
        /\ tk.waProbes = 1 + tk.waRestarts
        /\ tk.alerts.whatsapp <= 1
        /\ tk.alerts.whatsapp = 1 <=>
              /\ ~FullyConnected(tk.WA_OUTPUT)
              /\ tk.waProbes = 2
              /\ ~FullyConnected(tk.WA_OUTPUT2)

\* C26: every run of health-check.sh goes through all seven checks (1, 2, 3,
\* 4, 5, 5b, 6) whatever failed earlier; FAILURES and WARNINGS are the
\* numbers of fail and warn lines of the run; the summary is "Health check
\* PASSED" exactly when both are 0.
C26_AllChecksRunAndCountersMatch ==
    /\ tk.FAILURES = tk.failEvents
    /\ tk.WARNINGS = tk.warnEvents
    /\ tk.pc \in {"summary", "done"} => tk.checks = 7
    /\ tk.pc = "done" =>
          /\ tk.summary \in {"PASSED", "COMPLETE"}
          /\ tk.summary = "PASSED" <=> (tk.FAILURES = 0 /\ tk.WARNINGS = 0)

\* A run has got to its summary after failures in checks 1 to 3.
C26_Witness ==
    /\ tk.pc = "done" /\ tk.checks = 7 /\ tk.summary = "COMPLETE"
    /\ tk.FAILURES >= 4 /\ tk.WARNINGS >= 1
    /\ tk.alerts.gateway = 1 /\ tk.alerts.whatsapp = 1

\* The lines of a .env file other than the assignments to keys outside the
\* job's list.
RECURSIVE InsideLines(_, _)
InsideLines(lines, job) ==
    IF lines = << >> THEN << >>
    ELSE LET l == Head(lines)
             rest == InsideLines(Tail(lines), job)
         IN  IF l.kind = "assign" /\ l.key \notin JobVars(job)
             THEN rest ELSE <<l>> \o rest

\* Two .env files differ only in keys outside the job's list.
DifferOnlyOutside(a, b, job) ==
    /\ a.exists /\ b.exists
    /\ a.terminated = b.terminated
    /\ InsideLines(a.lines, job) = InsideLines(b.lines, job)

\* C21: for a known job, load-env.sh adds no .env key outside the job's list
\* to the command's environment, and two .env files that differ only in keys
\* outside the list give the launched command the same environment.
C21_OnlyListedKeysReachCommand ==
    (le.pc = "done" /\ le.JOB \in KnownJobs) =>
        /\ DOMAIN le.resA.env \subseteq JobVars(le.JOB)
        /\ DOMAIN le.resB.env \subseteq JobVars(le.JOB)
        /\ ( /\ DifferOnlyOutside(le.fileA, le.fileB, le.JOB)
             /\ le.resA.launched /\ le.resB.launched )
              => le.resA.env = le.resB.env

\* C23: the meeting joiner launches a browser or navigates only when the
\* hostname of MEETING_URL is one of the four allowed domains; with a missing
\* URL, an unparsable URL or any other hostname the process ends with status
\* 1 before any browser launch.
C23_BrowserOnlyForAllowedHost ==
    LET good == /\ mj.url.given /\ mj.url.parses
                /\ hostname(mj.url) \in {"meet.google.com", "zoom.us",
                                         "teams.microsoft.com", "teams.live.com"}
    IN  /\ (mj.browser # "none" \/ mj.navigated \/ mj.page) => good
        /\ (mj.pc \notin {"idle", "validate"} /\ ~good) =>
              /\ mj.pc = "exited" /\ mj.exit = 1
              /\ mj.browser = "none" /\ ~mj.navigated
              /\ mj.path \in {"no-url", "invalid-url", "invalid-domain"}

\* A URL on a subdomain of an allowed domain has been refused.
C23_Witness ==
    /\ mj.pc = "exited" /\ mj.path = "invalid-domain" /\ mj.exit = 1
    /\ mj.url.host = "us02web.zoom.us" /\ mj.browser = "none"

\* C29: whenever the process has ended after the browser was launched, the
\* browser context and the browser have been closed.
C29_BrowserClosedBeforeExit ==
    (mj.pc = "exited" /\ mj.browser # "none") =>
        /\ mj.browser = "closed"
        /\ mj.context \in {"none", "closed"}

\* C27: in a run of the attendance monitor the +3 minute check and the +5
\* minute check each run at most once; every member gets at most one
\* 3-minute reminder and at most one escalation; a member is escalated only
\* after a reminder and when still absent at the +5 minute check; nothing is
\* sent once attendanceComplete is set.
C27_RemindAndEscalateAtMostOnce ==
    /\ mon.check3Runs <= 1 /\ mon.check5Runs <= 1
    /\ mon.lateSends = 0
    /\ \A m \in Members :
          /\ mon.reminders[m] <= 1 /\ mon.escalations[m] <= 1
          /\ mon.reminders[m] = 1 <=> m \in mon.whatsappSent
          /\ mon.escalations[m] = 1 <=> m \in mon.escalated
          /\ mon.escalations[m] = 1 =>
                /\ mon.reminders[m] = 1
                /\ m \in mon.expectedAttendees
                /\ m \notin mon.present5
                /\ mon.check3Runs = 1 /\ mon.check5Runs = 1
    /\ mon.check5Runs = 1 => mon.attendanceComplete
    /\ mon.whatsappSent \subseteq mon.expectedAttendees

\* Both checks have run, the loop has gone on for iterations after them, one
\* member was reminded and escalated and the other only reminded.
C27_Witness ==
    /\ mon.check3Runs = 1 /\ mon.check5Runs = 1
    /\ mon.reminders["alice"] = 1 /\ mon.escalations["alice"] = 1
    /\ mon.reminders["bob"] = 1 /\ mon.escalations["bob"] = 0
    /\ mon.lag + mon.elapsed >= 10 * 60000

\* The monitoring loop is running.
InLoop == mon.pc \in {"test", "sleep", "body"}

\* C28: the monitoring loop always ends; it is left on a signal, when the
\* page has left the meeting or shows that it has ended, or once
\* MAX_DURATION_MS have elapsed, and not before; after a signal no further
\* iteration is started.
C28_LoopAlwaysLeft ==
    /\ [](mon.pc = "left" =>
             \/ mon.reason = "signal" /\ mon.stopping
             \/ mon.reason \in {"redirected", "ended"}
             \/ mon.reason = "duration" /\ mon.elapsed >= MAX_DURATION_MS)
    /\ [](mon.stopping => mon.iter = mon.sigIter)
    /\ [](mon.elapsed <= MAX_DURATION_MS)
    /\ (InLoop ~> mon.pc = "left")

\* The loop has been left because its three hours were over.
C28_Witness ==
    /\ mon.pc = "left" /\ mon.reason = "duration"
    /\ mon.elapsed = MAX_DURATION_MS /\ ~mon.stopping

\* C30: processGeminiNotes searches at most 3 times, waiting only between
\* attempts, and stops at the first attempt that finds a notes email; with
\* none found it sends no email and archives nothing; with one found it
\* archives the thread exactly once on every path, and a failed email to one
\* member keeps neither the other emails nor the archiving from happening.
C30_NotesSearchedAndArchivedOnce ==
    /\ gn.searches <= 3 /\ gn.archives <= 1
    /\ gn.searches = Len(gn.outcomes)
    /\ \A i \in 1..(Len(gn.outcomes) - 1) :
          gn.outcomes[i] \in {"throws", "none"}
    /\ gn.notesEmail => gn.waits = gn.searches - 1
    /\ gn.pc = "done" =>
          /\ gn.path = "no-title" => gn.searches = 0 /\ gn.archives = 0
          /\ gn.path = "not-found" =>
                /\ gn.searches = 3 /\ gn.waits = 2 /\ ~gn.notesEmail
                /\ gn.emailsTried = {} /\ gn.archives = 0
          /\ gn.notesEmail =>
                /\ gn.archives = 1
                /\ gn.emailsTried = gn.memberItems
                /\ gn.path \in {"no-items", "unassigned", "sent"}
          /\ gn.path \in {"no-items", "unassigned"} => gn.emailsTried = {}

\* The notes were found at the third attempt; of the two members with action
\* items one could not be emailed, the other was, and the thread was archived.
C30_Witness ==
    /\ gn.pc = "done" /\ gn.path = "sent" /\ gn.searches = 3 /\ gn.waits = 2
    /\ gn.memberItems = Members /\ gn.emailsSent = {"bob"}
    /\ gn.archives = 1

====
